---- MODULE Spec2Model ----
(***************************************************************************)
(* Model of src/server.js: the POST /upload handler (multer disk storage,  *)
(* file filter, size and count limits, Image.insertMany) and the           *)
(* GET /images handler (Image.find().sort({uploadedAt: -1})).              *)
(*                                                                         *)
(* Strings are sequences of one-character strings, so that extname,        *)
(* toLowerCase, the unanchored regular expression test and the string      *)
(* concatenations of the source are computed, not assumed.                 *)
(***************************************************************************)
EXTENDS Naturals, Sequences, FiniteSets

\* ------------------------------------------------------------------ bounds

\* The clock (Date.now()) starts at StartClock and advances MaxTicks times.
StartClock == 9
MaxTicks == 1
MaxClock == StartClock + MaxTicks

\* The parts a request still has taken up after its first error, before
\* multer detaches from the body.
MaxLate == 1

\* The concurrent upload requests of the model.
Reqs == {"r1", "r2"}

\* --------------------------------------------------------- string helpers

UpperChars == <<"A","B","C","D","E","F","G","H","I","J","K","L","M",
                "N","O","P","Q","R","S","T","U","V","W","X","Y","Z">>
LowerChars == <<"a","b","c","d","e","f","g","h","i","j","k","l","m",
                "n","o","p","q","r","s","t","u","v","w","x","y","z">>

\* String.prototype.toLowerCase, one character.
LowerChar(c) ==
    IF \E i \in 1..Len(UpperChars) : UpperChars[i] = c
    THEN LowerChars[CHOOSE i \in 1..Len(UpperChars) : UpperChars[i] = c]
    ELSE c

\* String.prototype.toLowerCase.
ToLowerCase(s) == [i \in 1..Len(s) |-> LowerChar(s[i])]

\* Whether w occurs in s as a contiguous substring.
Contains(s, w) ==
    \E i \in 1..(Len(s) + 1) :
        /\ i + Len(w) - 1 <= Len(s)
        /\ \A j \in 1..Len(w) : s[i + j - 1] = w[j]

\* Index of the last occurrence of character c in s, 0 when there is none.
LastIndexOf(s, c) ==
    IF \E i \in 1..Len(s) : s[i] = c
    THEN CHOOSE i \in 1..Len(s) : s[i] = c /\ \A j \in (i+1)..Len(s) : s[j] # c
    ELSE 0

\* path.basename: what follows the last "/".
Basename(s) == SubSeq(s, LastIndexOf(s, "/") + 1, Len(s))

\* path.extname: from the last "." of the base name to its end; empty when
\* there is no "." or the only "." is the first character of the base name.
ExtName(s) ==
    LET b == Basename(s)
        k == LastIndexOf(b, ".")
    IN  IF k <= 1 THEN <<>> ELSE SubSeq(b, k, Len(b))

DigitChars == <<"0","1","2","3","4","5","6","7","8","9">>

\* Number to decimal string, as the + of a number and a string converts it.
RECURSIVE NumberToString(_)
NumberToString(n) ==
    IF n < 10 THEN <<DigitChars[n + 1]>>
    ELSE NumberToString(n \div 10) \o <<DigitChars[(n % 10) + 1]>>

\* --------------------------------------------------- upload configuration

\* limits: { fileSize: 2 * 1024 * 1024 }
SizeLimit == 2 * 1024 * 1024

\* .array('images', 10)
MaxCount == 10

\* The alternatives of /jpeg|jpg|png|gif/.
FileTypes == { <<"j","p","e","g">>, <<"j","p","g">>, <<"p","n","g">>, <<"g","i","f">> }

\* RegExp.prototype.test of /jpeg|jpg|png|gif/: unanchored.
FileTypesTest(s) == \E w \in FileTypes : Contains(s, w)

\* fileFilter: extension (lower-cased) and mimetype both match the expression.
FileFilter(f) ==
    /\ FileTypesTest(ToLowerCase(ExtName(f.originalname)))
    /\ FileTypesTest(f.mimetype)

\* storage.filename: Date.now() + path.extname(originalname).
StorageFilename(t, f) == NumberToString(t) \o ExtName(Basename(f.originalname))

\* ------------------------------------------------------------------ inputs

NamePng   == <<"a",".","p","n","g">>
NameUpper == <<"b",".","P","N","G">>
NameJpeg  == <<"d","/","c",".","j","p","e","g">>
NamePngx  == <<"a",".","p","n","g","x">>
NameTxt   == <<"n",".","t","x","t">>

MimePng   == <<"i","m","a","g","e","/","p","n","g">>
MimeJpeg  == <<"i","m","a","g","e","/","j","p","e","g">>
MimeTextPng == <<"t","e","x","t","/","p","n","g">>
MimePlain == <<"t","e","x","t","/","p","l","a","i","n">>

File(n, m, sz) == [originalname |-> n, mimetype |-> m, size |-> sz]

FPng      == File(NamePng, MimePng, 1)
FUpper    == File(NameUpper, MimePng, SizeLimit)
FJpeg     == File(NameJpeg, MimeJpeg, 1)
FBig      == File(NamePng, MimePng, SizeLimit + 1)
FPngx     == File(NamePngx, MimeTextPng, 1)
FBadMime  == File(NamePng, MimePlain, 1)
FBadExt   == File(NameTxt, MimePng, 1)

\* One file more than the count limit, all of them valid.
TooMany == [i \in 1..(MaxCount + 1) |-> FPng]

\* The request bodies of the model.
Batches ==
    << <<>>, <<FPng>>, <<FPng, FPng>>, <<FUpper, FJpeg>>,
       <<FPng, FBadMime, FJpeg>>, <<FBadExt, FPng>>, <<FBig, FPng>>, <<FPngx>>,
       TooMany >>

BatchSet == {Batches[i] : i \in 1..Len(Batches)}

\* The request bodies that run beside a request over the count limit.
BesideTooMany == { <<>> }

\* The bodies of the two concurrent requests: every pair of bodies, once
\* (the requests are interchangeable), a body over the count limit only
\* beside those of BesideTooMany.
Scenarios ==
    {b \in [Reqs -> BatchSet] :
        /\ \E i, j \in 1..Len(Batches) :
              i <= j /\ b["r1"] = Batches[i] /\ b["r2"] = Batches[j]
        /\ \A r, q \in Reqs : (r # q /\ b[r] = TooMany) => b[q] \in BesideTooMany}

\* ------------------------------------------------------------------- state

VARIABLES
    now,        \* Date.now()
    batch,      \* per request: the files of the multipart body, in order
    phase,      \* per request: where its handling stands
    idx,        \* per request: number of file parts taken up so far
    late,       \* per request: number of them taken up after the first error
    pending,    \* per request: files being written (multer's pendingWrites)
    uploaded,   \* per request: files written, in the order the writes finished
                \* (multer's uploadedFiles)
    rmTotal,    \* per request: number of uploaded files when the removal began
    rm,         \* per request: number of uploaded files already unlinked
    err,        \* per request: the error multer ends with, "none" if none
    docs,       \* per request: documents handed to Image.insertMany
    resp,       \* per request: the HTTP response, status 0 while pending
    written,    \* per request: indices of the files ever put on disk (history)
    disk,       \* the uploads/ directory: entries [name, owner <<request, index>>]
    store,      \* the images collection, in insertion order
    images,     \* result of the last Image.find().sort(...)
    listResp,   \* response of the last GET /images, status 0 before the first
    listSeen    \* number of documents in the store at the last GET /images

vars == <<now, batch, phase, idx, late, pending, uploaded, rmTotal, rm, err, docs,
          resp, written, disk, store, images, listResp, listSeen>>

reqVars == <<phase, idx, late, pending, uploaded, rmTotal, rm, err, docs, resp, written>>
listVars == <<images, listResp, listSeen>>

NoResponse == [status |-> 0, filePaths |-> <<>>]

Init ==
    /\ now = StartClock
    /\ batch \in Scenarios
    /\ phase = [r \in Reqs |-> "upload"]
    /\ idx = [r \in Reqs |-> 0]
    /\ late = [r \in Reqs |-> 0]
    /\ pending = [r \in Reqs |-> {}]
    /\ uploaded = [r \in Reqs |-> <<>>]
    /\ rmTotal = [r \in Reqs |-> 0]
    /\ rm = [r \in Reqs |-> 0]
    /\ err = [r \in Reqs |-> "none"]
    /\ docs = [r \in Reqs |-> <<>>]
    /\ resp = [r \in Reqs |-> NoResponse]
    /\ written = [r \in Reqs |-> {}]
    /\ disk = {}
    /\ store = <<>>
    /\ images = <<>>
    /\ listResp = NoResponse
    /\ listSeen = 0

\* -------------------------------------------------------- the filesystem

\* fs.createWriteStream(finalPath) and the pipe into it: the file named n
\* now holds the bytes of file o, whatever it held before.
WriteFile(d, n, o) == {e \in d : e.name # n} \cup {[name |-> n, owner |-> o]}

\* fs.unlink(path), as multer's _removeFile calls it for an uploaded file.
RemoveFile(d, n) == {e \in d : e.name # n}

DiskNames(d) == {e.name : e \in d}

\* ------------------------------------------------------ POST /upload steps
\*
\* upload is multer's middleware. It takes up the file parts of the body in
\* order: each goes through the count limit and fileFilter, and an accepted
\* file is named by storage.filename and streamed to disk; the next file is
\* accepted once that write has ended. The first error is kept; multer then
\* waits for the pending write, unlinks the files uploaded until then, one
\* by one, and only then detaches from the body and calls back with the
\* error. Until it detaches, it goes on taking up parts.

\* A count limit that never refuses a part.
CountExceededNever(i) == FALSE

\* multer's wrapped file filter for .array('images', 10): the part is
\* refused once the field has had its maxCount files.
CountExceeded(i) == i > MaxCount

\* busboy's fileSize limit: the stream is cut, and 'limit' emitted, once a
\* file has more bytes than the limit.
Truncated(f) == f.size > SizeLimit

\* A filter outcome that lets every file in.
IncludeFileAlways(f) == TRUE

\* if (isValidExt && isValidMime) cb(null, true) else cb(new Error(...))
IncludeFile(f) == FileFilter(f)

\* The error multer keeps: the first one.
FirstError(old, new) == IF old = "none" THEN new ELSE old

\* Where the upload stands once the error is e, the pending writes are pend
\* and the uploaded files are upl: with an error and no write pending the
\* removal of the uploaded files begins, and is over at once if there is none.
AfterStep(e, pend, upl) ==
    IF e = "none" \/ pend # {} THEN "upload"
    ELSE IF Len(upl) = 0 THEN "finished" ELSE "cleanup"

\* The upload goes on from phase p of request r.
Advance(r, p, e, pend, upl) ==
    IF p = "upload"
    THEN /\ phase' = [phase EXCEPT ![r] = AfterStep(e, pend, upl)]
         /\ rmTotal' = [rmTotal EXCEPT ![r] = Len(upl)]
    ELSE UNCHANGED <<phase, rmTotal>>

\* multer is still attached to the body of request r and a part is left.
PartArrives(r) ==
    /\ phase[r] \in {"upload", "cleanup"}
    /\ idx[r] < Len(batch[r])
    /\ err[r] # "none" => late[r] < MaxLate

\* The part of request r is taken up.
TakePart(r) ==
    /\ idx' = [idx EXCEPT ![r] = idx[r] + 1]
    /\ late' = [late EXCEPT ![r] = IF err[r] = "none" THEN @ ELSE @ + 1]

\* The next part's file is refused by the count limit: LIMIT_UNEXPECTED_FILE.
RejectCount(r) ==
    /\ PartArrives(r)
    /\ CountExceeded(idx[r] + 1)
    /\ TakePart(r)
    /\ err' = [err EXCEPT ![r] = FirstError(@, "count")]
    /\ Advance(r, phase[r], err'[r], pending[r], uploaded[r])
    /\ UNCHANGED <<now, batch, pending, uploaded, rm, docs, resp,
                   written, disk, store, listVars>>

\* The next part's file is refused by fileFilter: cb(new Error(...)).
RejectFilter(r) ==
    /\ PartArrives(r)
    /\ ~CountExceeded(idx[r] + 1)
    /\ ~IncludeFile(batch[r][idx[r] + 1])
    /\ TakePart(r)
    /\ err' = [err EXCEPT ![r] = FirstError(@, "filter")]
    /\ Advance(r, phase[r], err'[r], pending[r], uploaded[r])
    /\ UNCHANGED <<now, batch, pending, uploaded, rm, docs, resp,
                   written, disk, store, listVars>>

\* The next part's file passes fileFilter; the disk storage names it and
\* its write begins. A file over the size limit is cut there, which ends
\* the upload with LIMIT_FILE_SIZE.
AcceptFile(r) ==
    /\ PartArrives(r)
    /\ pending[r] = {}
    /\ ~CountExceeded(idx[r] + 1)
    /\ IncludeFile(batch[r][idx[r] + 1])
    /\ TakePart(r)
    /\ pending' = [pending EXCEPT ![r] =
          @ \cup {[index |-> idx[r] + 1,
                   filename |-> StorageFilename(now, batch[r][idx[r] + 1])]}]
    /\ err' = [err EXCEPT ![r] =
          IF Truncated(batch[r][idx[r] + 1]) THEN FirstError(@, "size") ELSE @]
    /\ UNCHANGED <<now, batch, phase, uploaded, rmTotal, rm, docs, resp,
                   written, disk, store, listVars>>

\* A write stream finishes: the file (cut at the size limit when it is
\* larger) is on disk and joins the uploaded files.
FinishWrite(r) ==
    \E p \in pending[r] :
        /\ disk' = WriteFile(disk, p.filename, <<r, p.index>>)
        /\ written' = [written EXCEPT ![r] = @ \cup {p.index}]
        /\ pending' = [pending EXCEPT ![r] = @ \ {p}]
        /\ uploaded' = [uploaded EXCEPT ![r] = Append(@, p)]
        /\ Advance(r, phase[r], err[r], pending'[r], uploaded'[r])
        /\ UNCHANGED <<now, batch, idx, late, rm, err, docs, resp, store, listVars>>

\* A write stream fails (outStream 'error') before any size limit is hit:
\* the file is not among the uploaded files, and whether the failed stream
\* left a file behind depends on where it failed.
FailWrite(r) ==
    \E p \in pending[r] :
        /\ ~Truncated(batch[r][p.index])
        /\ \E left \in BOOLEAN :
              /\ disk' = IF left THEN WriteFile(disk, p.filename, <<r, p.index>>) ELSE disk
              /\ written' = [written EXCEPT ![r] = IF left THEN @ \cup {p.index} ELSE @]
        /\ pending' = [pending EXCEPT ![r] = @ \ {p}]
        /\ err' = [err EXCEPT ![r] = FirstError(@, "write")]
        /\ Advance(r, phase[r], err'[r], pending'[r], uploaded[r])
        /\ UNCHANGED <<now, batch, idx, late, uploaded, rm, docs, resp, store, listVars>>

\* multer removes the files that were uploaded when the removal began, one
\* unlink at a time; after the last it detaches from the body.
Unlink(r) ==
    /\ phase[r] = "cleanup"
    /\ disk' = RemoveFile(disk, uploaded[r][rm[r] + 1].filename)
    /\ rm' = [rm EXCEPT ![r] = rm[r] + 1]
    /\ phase' = [phase EXCEPT ![r] = IF rm[r] + 1 = rmTotal[r] THEN "finished" ELSE "cleanup"]
    /\ UNCHANGED <<now, batch, idx, late, pending, uploaded, rmTotal, err, docs,
                   resp, written, store, listVars>>

\* if (err) return res.status(400).json({ message: err.message })
UploadError(r) ==
    /\ phase[r] = "finished"
    /\ resp' = [resp EXCEPT ![r] = [status |-> 400, filePaths |-> <<>>]]
    /\ phase' = [phase EXCEPT ![r] = "done"]
    /\ UNCHANGED <<now, batch, idx, late, pending, uploaded, rmTotal, rm, err, docs,
                   written, disk, store, listVars>>

\* multer calls back without an error: every part was taken up, no write
\* is pending and no error occurred.
UploadComplete(r) ==
    /\ phase[r] = "upload"
    /\ idx[r] = Len(batch[r])
    /\ pending[r] = {}
    /\ err[r] = "none"

\* req.files: the uploaded files, in the order of their parts.
ReqFiles(r) == uploaded[r]

\* if (!req.files || req.files.length === 0) return res.status(400)...
NoFiles(r) ==
    /\ UploadComplete(r)
    /\ Len(ReqFiles(r)) = 0
    /\ resp' = [resp EXCEPT ![r] = [status |-> 400, filePaths |-> <<>>]]
    /\ phase' = [phase EXCEPT ![r] = "done"]
    /\ UNCHANGED <<now, batch, idx, late, pending, uploaded, rmTotal, rm, err, docs,
                   written, disk, store, listVars>>

\* The public path without the separator after the directory.
UploadPathNoSlash(filename) == <<"/","u","p","l","o","a","d","s">> \o filename

\* `/uploads/${file.filename}`
UploadPath(filename) == <<"/","u","p","l","o","a","d","s","/">> \o filename

\* req.files.map(file => ({ filename, path })) with the schema's default
\* uploadedAt: Date.now; id stands for the document's _id.
NewDocs(r) ==
    LET fs == ReqFiles(r)
    IN  [i \in 1..Len(fs) |->
            [id |-> <<r, i>>,
             filename |-> fs[i].filename,
             path |-> UploadPath(fs[i].filename),
             uploadedAt |-> now]]

\* Image.insertMany(...) is called with the documents of the request.
CallInsertMany(r) ==
    /\ UploadComplete(r)
    /\ Len(ReqFiles(r)) > 0
    /\ docs' = [docs EXCEPT ![r] = NewDocs(r)]
    /\ phase' = [phase EXCEPT ![r] = "insert"]
    /\ UNCHANGED <<now, batch, idx, late, pending, uploaded, rmTotal, rm, err, resp,
                   written, disk, store, listVars>>

\* The filePaths of the 200 response: the first copy of the handler maps
\* req.files, the second maps the documents insertMany returned.
ResponsePaths(r, copy) ==
    IF copy = 1
    THEN LET fs == ReqFiles(r) IN [i \in 1..Len(fs) |-> UploadPath(fs[i].filename)]
    ELSE [i \in 1..Len(docs[r]) |-> docs[r][i].path]

\* insertMany resolves: res.status(200).json({ filePaths })
InsertOk(r) ==
    /\ phase[r] = "insert"
    /\ store' = store \o docs[r]
    /\ \E copy \in {1, 2} :
          resp' = [resp EXCEPT ![r] = [status |-> 200, filePaths |-> ResponsePaths(r, copy)]]
    /\ phase' = [phase EXCEPT ![r] = "done"]
    /\ UNCHANGED <<now, batch, idx, late, pending, uploaded, rmTotal, rm, err, docs,
                   written, disk, listVars>>

\* insertMany rejects (catch (dbError)): res.status(500); an ordered insert
\* that fails may have inserted the documents before the failing one.
InsertFail(r) ==
    /\ phase[r] = "insert"
    /\ \E k \in 0..(Len(docs[r]) - 1) : store' = store \o SubSeq(docs[r], 1, k)
    /\ resp' = [resp EXCEPT ![r] = [status |-> 500, filePaths |-> <<>>]]
    /\ phase' = [phase EXCEPT ![r] = "done"]
    /\ UNCHANGED <<now, batch, idx, late, pending, uploaded, rmTotal, rm, err, docs,
                   written, disk, listVars>>

\* The clock advances.
Tick ==
    /\ now < MaxClock
    /\ now' = now + 1
    /\ UNCHANGED <<batch, reqVars, disk, store, listVars>>

\* -------------------------------------------------------- GET /images steps

\* The orders in which a scan may hand over n documents: a collection keeps
\* no order of its own, and a sort on a key with equal values returns the
\* documents that share a value in any order.
ScanOrders(n) == {p \in [1..n -> 1..n] : \A i, j \in 1..n : p[i] = p[j] => i = j}

\* The ascending order, sort({ uploadedAt: 1 }).
BeforeAscending(a, b) == a.uploadedAt <= b.uploadedAt

\* sort({ uploadedAt: -1 }): a goes before b.
Before(a, b) == a.uploadedAt >= b.uploadedAt

\* Puts d into the sorted sequence s, after the documents that go before it.
RECURSIVE SortedInsert(_, _)
SortedInsert(d, s) ==
    IF s = <<>> THEN <<d>>
    ELSE IF Before(Head(s), d) THEN <<Head(s)>> \o SortedInsert(d, Tail(s))
    ELSE <<d>> \o s

\* The sort of the sequence s.
RECURSIVE SortImages(_)
SortImages(s) ==
    IF s = <<>> THEN <<>>
    ELSE SortedInsert(s[Len(s)], SortImages(SubSeq(s, 1, Len(s) - 1)))

\* Image.find().sort({ uploadedAt: -1 }) on the collection c.
FindSorted(c) == {SortImages([i \in 1..Len(c) |-> c[p[i]]]) : p \in ScanOrders(Len(c))}

\* images.map(img => img.path)
ImagePaths(s) == [i \in 1..Len(s) |-> s[i].path]

\* GET /images answers 200 with the paths of the sorted documents.
ListImages ==
    /\ \E found \in FindSorted(store) :
          /\ images' = found
          /\ listResp' = [status |-> 200, filePaths |-> ImagePaths(found)]
    /\ listSeen' = Len(store)
    /\ UNCHANGED <<now, batch, reqVars, disk, store>>

\* The query rejects (catch (err)): GET /images answers 500.
ListFail ==
    /\ images' = <<>>
    /\ listResp' = [status |-> 500, filePaths |-> <<>>]
    /\ listSeen' = Len(store)
    /\ UNCHANGED <<now, batch, reqVars, disk, store>>

\* ------------------------------------------------------------ specification

Upload(r) ==
    \/ RejectCount(r)
    \/ RejectFilter(r)
    \/ AcceptFile(r)
    \/ FinishWrite(r)
    \/ FailWrite(r)
    \/ Unlink(r)
    \/ UploadError(r)
    \/ NoFiles(r)
    \/ CallInsertMany(r)
    \/ InsertOk(r)
    \/ InsertFail(r)

Next ==
    \/ \E r \in Reqs : Upload(r)
    \/ ListImages
    \/ ListFail
    \/ Tick

Spec == Init /\ [][Next]_vars

\* ------------------------------------------------- vocabulary of the claims

\* The files of request r in the blob directory.
OwnedOnDisk(r) == {e \in disk : e.owner[1] = r}

\* The records of request r in the store, in insertion order.
RecordsOf(r) == SelectSeq(store, LAMBDA d : d.id[1] = r)

\* Request r ended with a validation failure (type check or size limit).
ValidationFailed(r) == err[r] \in {"filter", "size"}

\* The handling of request r is over: the response is sent and no write of
\* the request is left pending.
Completed(r) == phase[r] = "done" /\ pending[r] = {}

\* The uploaded files of request r.
UploadedSet(r) == {uploaded[r][k] : k \in 1..Len(uploaded[r])}

\* The storage filename of the file of part i of request r.
StoredName(r, i) == (CHOOSE u \in UploadedSet(r) : u.index = i).filename

\* The extensions and content types the specification allows, exactly.
AllowedExtensions == {<<".">> \o w : w \in FileTypes}
AllowedContentTypes == {<<"i","m","a","g","e","/">> \o w : w \in FileTypes}

\* The acceptance predicate as the specification states it.
StatedAcceptable(f) ==
    /\ ToLowerCase(ExtName(f.originalname)) \in AllowedExtensions
    /\ f.mimetype \in AllowedContentTypes
    /\ f.size <= SizeLimit

\* The files of the request bodies of the model.
ModelFiles == UNION {{b[i] : i \in 1..Len(b)} : b \in BatchSet}

\* Those that pass the type check of fileFilter.
TypeChecked == {f \in ModelFiles : FileFilter(f)}

\* A file that passes the type check.
PassesTypeCheck(f) == f \in TypeChecked

\* Position of document d in the store.
StorePosition(d) == CHOOSE k \in 1..Len(store) : store[k].id = d.id

\* ------------------------------------------------------------------ claims

\* C1: once a request that failed validation (extension, content type or
\* size limit) has completed, no file of its batch is in the blob directory
\* and no record of its batch is in the store, wherever the failing file
\* stands in the batch and whatever the other request does.
AllOrNothingBatch ==
    \A r \in Reqs :
        (Completed(r) /\ ValidationFailed(r)) =>
            /\ OwnedOnDisk(r) = {}
            /\ RecordsOf(r) = <<>>

\* C2: any two accepted files, of one batch or of different requests, have
\* different storage filenames.
UniqueStorageNames ==
    \A r, q \in Reqs : \A i \in 1..Len(uploaded[r]) : \A j \in 1..Len(uploaded[q]) :
        (r # q \/ i # j) => uploaded[r][i].filename # uploaded[q][j].filename

\* C3: for a request answered 200, the records inserted and the entries of
\* filePaths are as many as the accepted files, in the order of the files of
\* the request, and every record's path and every entry is "/uploads/"
\* followed by the file's storage filename.
StoredMatchesResponse ==
    \A r \in Reqs :
        resp[r].status = 200 =>
            LET n == Len(batch[r])
                recs == RecordsOf(r)
            IN  /\ Len(uploaded[r]) = n
                /\ Len(recs) = n
                /\ Len(resp[r].filePaths) = n
                /\ \A i \in 1..n :
                      /\ recs[i].filename = StoredName(r, i)
                      /\ ExtName(recs[i].filename) = ExtName(batch[r][i].originalname)
                      /\ recs[i].path = <<"/","u","p","l","o","a","d","s","/">> \o recs[i].filename
                      /\ resp[r].filePaths[i] = recs[i].path

\* C3 witness: a request with two files of different extensions got its 200.
StoredMatchesResponseWitness ==
    \E r \in Reqs :
        /\ resp[r].status = 200
        /\ Len(batch[r]) = 2
        /\ resp[r].filePaths[1] # resp[r].filePaths[2]

\* C4: a GET /images answered 200 returns the paths of all the records in
\* the store at the time of the query, in non-increasing uploadedAt order.
ListingNewestFirst ==
    listResp.status = 200 =>
        /\ Len(images) = listSeen
        /\ {images[i].id : i \in 1..Len(images)} = {store[k].id : k \in 1..listSeen}
        /\ \A i, j \in 1..Len(images) :
              i < j => images[i].uploadedAt >= images[j].uploadedAt
        /\ listResp.filePaths = [i \in 1..Len(images) |-> images[i].path]

\* C4 witness: a listing of records of two requests whose insertion order
\* is oldest first.
ListingNewestFirstWitness ==
    /\ listResp.status = 200
    /\ \E i, j \in 1..listSeen :
          /\ i < j
          /\ store[i].uploadedAt < store[j].uploadedAt
          /\ store[i].id[1] # store[j].id[1]

\* C5: a request that fails on a blob write or on the insert is answered
\* 500, one that fails validation or carries no file is answered 400, and
\* no failing request is answered 200.
FailureStatusMapping ==
    \A r \in Reqs :
        phase[r] = "done" =>
            /\ err[r] = "write" => resp[r].status = 500
            /\ (err[r] = "none" /\ Len(RecordsOf(r)) < Len(docs[r])) => resp[r].status = 500
            /\ (ValidationFailed(r) \/ Len(batch[r]) = 0) => resp[r].status = 400
            /\ (err[r] # "none" \/ Len(RecordsOf(r)) < Len(batch[r])) => resp[r].status # 200

\* C6: a file is accepted if and only if its extension (case-insensitively)
\* and its content type are exactly among the allowed ones and its payload
\* is at most 2 MiB.
AcceptanceIsExact ==
    \A r \in Reqs :
        /\ \A u \in UploadedSet(r) :
              ~Truncated(batch[r][u.index]) => StatedAcceptable(batch[r][u.index])
        /\ \A i \in 1..idx[r] :
              (/\ i <= 10
               /\ \/ ~IncludeFile(batch[r][i])
                  \/ Truncated(batch[r][i])) => ~StatedAcceptable(batch[r][i])

\* C7: a request with no file, or with more than 10 files, is answered 400
\* and creates no record; records come only from requests with 1 to 10 files.
FileCountBounds ==
    /\ \A r \in Reqs :
          (phase[r] = "done" /\ (Len(batch[r]) = 0 \/ Len(batch[r]) > 10)) =>
              /\ resp[r].status = 400
              /\ RecordsOf(r) = <<>>
    /\ \A k \in 1..Len(store) :
          Len(batch[store[k].id[1]]) >= 1 /\ Len(batch[store[k].id[1]]) <= 10

\* C7 witness: a request with no file and a request with 11 files, whose
\* first files had been written, have both completed.
FileCountBoundsWitness ==
    \E r, q \in Reqs :
        /\ phase[r] = "done" /\ Len(batch[r]) = 0
        /\ phase[q] = "done" /\ Len(batch[q]) = 11 /\ written[q] # {}

TiesInInsertionOrder ==
    listResp.status = 200 =>
        \A i, j \in 1..Len(images) :
            (i < j /\ images[i].uploadedAt = images[j].uploadedAt) =>
                StorePosition(images[i]) < StorePosition(images[j])

RepeatedListingSame ==
    [][(/\ listResp.status = 200 /\ listResp'.status = 200
        /\ listSeen = Len(store) /\ store' = store /\ listSeen' = listSeen)
       => listResp'.filePaths = listResp.filePaths]_vars

\* C9, both halves.
ListingTieBreak == []TiesInInsertionOrder /\ RepeatedListingSame

\* C10: every record in the store names a file that exists in the blob
\* directory, in every reachable state.
RecordHasBlob ==
    \A k \in 1..Len(store) : store[k].filename \in DiskNames(disk)

====
